---------------------------- MODULE Spec2Model ----------------------------
(***************************************************************************)
(* The UWF firmware loader: the record loop of btpa_firmware_loader.py and *)
(* the bootloader session of uwf_processor.py (class UwfProcessor and the  *)
(* erase-address iterator SectorMapIter).                                  *)
(*                                                                         *)
(* The UWF file is read lazily: each file.read of the code draws the bytes *)
(* it returns, so that every file (complete or truncated) is explored.     *)
(* The transport (the serial port) answers every write_to_comm with a      *)
(* response drawn from Responses, or faults (serial.SerialException).      *)
(***************************************************************************)
EXTENDS Integers, Sequences, FiniteSets, TLC

\* ------------------------------------------------------------------------
\* Program constants
\* ------------------------------------------------------------------------
DEVICE_TYPE_BL654IG == "BL654IG"
DEVICE_TYPE_BL654 == "BL654"
DEVICE_TYPE_BL653 == "BL653"
DEVICE_TYPE_BL652 == "BL652"
DEVICE_TYPE_RM1XX == "RM1XX"
DEVICE_TYPE_BT900 == "BT900"
\* any other dev_type gives the base class UwfProcessor
DEVICE_TYPE_GENERIC == "GENERIC"
EXIT_CODE_SUCCESS == 0
EPERM == 1
ENETUNREACH == 101

UWF_COMMAND_HEADER_LENGTH == 6
UWF_TARGET_PLATFORM_LENGTH == 4
UWF_REGISTER_DEVICE_LENGTH == 11
UWF_SELECT_DEVICE_LENGTH == 2
UWF_SECTOR_MAP_LENGTH == 8
UWF_ERASE_BLOCK_LENGTH == 8
UWF_WRITE_BLOCK_LENGTH == 8
UWF_UNREGISTER_DEVICE_LENGTH == 1

\* the tag characters, as the byte held by the file
UWF_COMMAND_TARGET_PLATFORM == 84
UWF_COMMAND_REGISTER == 71
UWF_COMMAND_SELECT == 83
UWF_COMMAND_SECTOR_MAP == 77
UWF_COMMAND_ERASE == 69
UWF_COMMAND_WRITE == 87
UWF_COMMAND_UNREGISTER == 85

DATA_BLOCK_SIZE == 252
VERIFY_WRITE_LIMIT == 8
UWF_WRITE_BLOCK_HDR_LENGTH == 8
UWF_UI32_SIZE == 4

COMMAND_SYNC_WITH_BOOTLOADER == 128
COMMAND_PLATFORM_CHECK == 112
COMMAND_ERASE_SECTOR == 101
COMMAND_WRITE_SECTOR == 119
COMMAND_DATA_SECTION == 100
COMMAND_VERIFY_DATA == 118
COMMAND_REBOOT_BOOTLOADER == 122

RESPONSE_ATS_SIZE == 14
RESPONSE_ACKNOWLEDGE == 97
RESPONSE_ERROR == 102

\* Python's None, for the values that are numbers otherwise
None == -1

\* the error strings of the handlers (ERROR_* formatted) and the two values
\* the driver's variable `error` has besides: not yet bound, and None
Unbound == "unbound"
NoError == "None"
ErrSync == "process_command_target_platform: Failed to sync with the bootloader"
ErrAtsAck == "process_command_target_platform: Non-ack or error in ATS acknowledge response"
ErrPlatformId == "process_command_target_platform: Invalid platform ID"
ErrPlatformNonAck == "process_command_target_platform: Non-ack to platform ID"
ErrRegister == "process_command_register_device: Unexpected registration data"
ErrErasePrecond == "process_command_erase_blocks: Target platform, register device, or sector map commands not yet processed"
ErrEraseSize == "process_command_erase_blocks: Erase block size plus offset > bank size"
ErrEraseNonAck == "process_command_erase_blocks: Non-ack to erase command"
ErrWritePrecond == "process_command_write_blocks: Erase command not yet processed"
ErrWriteSize == "process_command_write_blocks: Data to write > bank size"
ErrWriteCmd == "process_command_write_blocks: Non-ack to write command"
ErrWriteData == "process_command_write_blocks: Non-ack to data write"
ErrWriteVerify == "process_command_write_blocks: Non-ack to verify command"

\* ------------------------------------------------------------------------
\* Bytes: struct.pack / struct.unpack, bytes.decode, file.read
\* ------------------------------------------------------------------------
Min(a, b) == IF a < b THEN a ELSE b

\* struct.pack('<I', v), for 0 <= v < 2^32; the addresses and sums explored
\* here all stay far below 2^31, where pack does not raise
PackU32(v) ==
    << v % 256, (v \div 256) % 256, (v \div 65536) % 256, (v \div 16777216) % 256 >>

\* an unpack that takes the two low bytes only
UnpackLow16(b) == b[1] + 256 * b[2]

\* struct.unpack('<I', b)[0], for a b of 4 bytes
UnpackU32(b) == b[1] + 256 * b[2] + 65536 * b[3] + 16777216 * b[4]

\* data[lo:hi] of Python, 0-based and clipped to the data
Slice(data, lo, hi) == SubSeq(data, lo + 1, Min(hi, Len(data)))

\* bytes.decode('utf-8') of a response or tag of at most one byte raises
\* UnicodeDecodeError on a byte that is not ASCII
DecodeRaises(b) == Len(b) = 1 /\ b[1] >= 128

\* response.decode('utf-8') == RESPONSE_ACKNOWLEDGE
IsChar(b, c) == Len(b) = 1 /\ b[1] = c

\* n copies of the byte v
Fill(n, v) == [i \in 1..n |-> v]

\* the sum of the bytes of s (the loop of lines 408-412), taken by halves
RECURSIVE SumSeq(_)
SumSeq(s) ==
    IF Len(s) = 0 THEN 0
    ELSE IF Len(s) = 1 THEN s[1]
    ELSE SumSeq(SubSeq(s, 1, Len(s) \div 2)) + SumSeq(SubSeq(s, Len(s) \div 2 + 1, Len(s)))

\* ------------------------------------------------------------------------
\* SectorMapIter: the erase-address iterator
\* ------------------------------------------------------------------------
\* SectorMapIter.__init__ raises on an empty or ragged map
IterInitRaises(tupSectors, tupSectorSz) ==
    ~(Len(tupSectors) > 0 /\ Len(tupSectors) = Len(tupSectorSz))

\* SectorMapIter.__init__ followed by __iter__
IterNew(tupSectors, tupSectorSz, nOffsetStart, nOffsetEnd) ==
    [tSectors |-> tupSectors, tSectorSz |-> tupSectorSz,
     nOffset |-> nOffsetStart, nOffsetEnd |-> nOffsetEnd,
     tuple_Idx |-> 0, sector_num |-> 0, sectorThisBase |-> 0]

\* the comparison that decides whether the sector at hand is yielded
IterTakes(nOffset, sectorNextBase) == nOffset < sectorNextBase

\* a walk that goes on when the next sector starts exactly at the end
IterPastEnd(sectorNextBase, nOffsetEnd) == sectorNextBase > nOffsetEnd

\* a walk that ends one byte early
IterAtEndEarly(sectorNextBase, nOffsetEnd) == sectorNextBase + 1 >= nOffsetEnd

\* the comparison that ends the walk after a sector that was not yielded
IterAtEnd(sectorNextBase, nOffsetEnd) == sectorNextBase >= nOffsetEnd

\* The two nested for loops of __next__, from group idx (0-based) and sector
\* num of it; sn is self.sector_num as the loops have left it so far.
\* The result is the iterator after the call and what the call did: value
\* >= 0 is the address returned, None is StopIteration.
RECURSIVE IterScan(_, _, _, _, _)
IterScan(it, idx, num, sn, thisBase) ==
    IF idx >= Len(it.tSectors)
    THEN [it |-> [it EXCEPT !.sector_num = sn, !.sectorThisBase = thisBase],
          value |-> None]
    ELSE IF num >= it.tSectors[idx + 1]
    THEN IterScan(it, idx + 1, 0, 0, thisBase)
    ELSE LET sectorNextBase == thisBase + it.tSectorSz[idx + 1] IN
         IF IterTakes(it.nOffset, sectorNextBase)
         THEN [it |-> [it EXCEPT !.nOffset = sectorNextBase, !.sector_num = num,
                                 !.tuple_Idx = idx, !.sectorThisBase = thisBase],
               value |-> thisBase]
         ELSE IF IterAtEnd(sectorNextBase, it.nOffsetEnd)
         THEN [it |-> [it EXCEPT !.sector_num = sn, !.sectorThisBase = sectorNextBase],
               value |-> None]
         ELSE IterScan(it, idx, num + 1, sn, sectorNextBase)

\* SectorMapIter.__next__
IterNext(it) == IterScan(it, it.tuple_Idx, it.sector_num, it.sector_num, it.sectorThisBase)


\* ------------------------------------------------------------------------
\* Bounds of the explored inputs
\* ------------------------------------------------------------------------
\* handles 0 .. MaxHandle appear in Register and Select records
MaxHandle == 1
\* at most MaxLog commands of one record are kept in the log `sent`
MaxLog == 24

\* ------------------------------------------------------------------------
\* State
\* ------------------------------------------------------------------------
VARIABLES
    pc,                 \* position of the driver / of the handler at work
    exit_code,          \* btpa_firmware_loader.exit_code
    error,              \* the driver's variable `error`
    cmd, data_length,   \* the header of the record at hand
    at_eof,             \* a read came short: the file has no more bytes
    consumed,           \* bytes read from the file since the header at hand
    synchronized, registered, erased, write_complete,
    sectors, sector_size,
    selected_handle, selected_bank,
    mem_base_address, mem_num_banks, mem_bank_size, mem_bank_algo,
    it,                 \* the SectorMapIter of the erase at work
    loc,                \* the locals of the handler at work
    sent,               \* what the record at hand has written to the port
    rcvd,               \* what the port has answered to it
    yielded,            \* the addresses the iterator has returned so far
    reboots,            \* calls of process_reboot
    closed,             \* ser.close() was called
    created,            \* init_processor has returned the UwfProcessor
    dev_type,           \* the variant init_processor was asked for
    erased_handles,     \* the handles selected when an erase completed (SpecErasure)
    ended,              \* how the run ended
    malformed,          \* the file held a malformed or truncated record
    nrec                \* 0, 1 or 2: no, one, more headers were read

flags == << synchronized, registered, erased, write_complete >>
smap == << sectors, sector_size >>
sel == << selected_handle, selected_bank >>
mem == << mem_base_address, mem_num_banks, mem_bank_size, mem_bank_algo >>
session == << flags, smap, sel, mem >>
hdr == << cmd, data_length >>
file == << at_eof, consumed >>
work == << it, loc, yielded >>
port == << sent, rcvd, reboots, closed >>
proc == << created, dev_type >>
vars == << pc, exit_code, error, hdr, file, session, work, port, proc, erased_handles,
           ended, malformed, nrec >>

Handles == 0..MaxHandle

NoIter == IterNew(<< >>, << >>, 0, 0)

NoLoc == [baseaddr |-> 0, offset |-> 0, size |-> 0, remaining_data_size |-> 0,
          last_write |-> FALSE, verify_checksum |-> 0, verify_count |-> 0,
          verify_data_block_size |-> 0, verify_start_addr |-> << >>,
          bytes_to_write |-> 0, register_device_data |-> << >>]

\* a dict of the session, as a function on Handles with None for a missing key
EmptyDict == [h \in Handles |-> None]
HasKey(d, h) == h \in DOMAIN d /\ d[h] # None
\* a store that gives every key the value
PutAll(d, h, v) == [k \in DOMAIN d |-> v]
Put(d, h, v) == [d EXCEPT ![h] = v]

\* the log of the port, capped
Log(s, c) == IF Len(s) < MaxLog THEN Append(s, c) ELSE s

\* ------------------------------------------------------------------------
\* The inputs: what the file and the port can hold
\* ------------------------------------------------------------------------
KnownTags == { UWF_COMMAND_TARGET_PLATFORM, UWF_COMMAND_REGISTER, UWF_COMMAND_SELECT,
               UWF_COMMAND_SECTOR_MAP, UWF_COMMAND_ERASE, UWF_COMMAND_WRITE,
               UWF_COMMAND_UNREGISTER }
\* 'X' is no opcode, 200 is no UTF-8 character
Tags == KnownTags \cup { 88, 200 }

\* the payload lengths a header of the tag declares
Lengths(tag) ==
    CASE tag = UWF_COMMAND_TARGET_PLATFORM -> { 4, 5 }
      [] tag = UWF_COMMAND_REGISTER -> { 11, 10 }
      [] tag = UWF_COMMAND_SELECT -> { 2, 3 }
      [] tag = UWF_COMMAND_SECTOR_MAP -> { 0, 8, 12, 16 }
      [] tag = UWF_COMMAND_ERASE -> { 8, 7 }
      [] tag = UWF_COMMAND_WRITE -> { 7, 8, 12, 260, 308, 2028, 5008 }
      [] tag = UWF_COMMAND_UNREGISTER -> { 1, 0 }
      [] OTHER -> { 0, 5 }

Header(tag, n) == << tag, 0 >> \o PackU32(n)
FullHeaders == UNION { { Header(t, n) : n \in Lengths(t) } : t \in Tags }
PartialHeaders == { SubSeq(Header(UWF_COMMAND_ERASE, 8), 1, k) : k \in 1..5 }

\* the outcomes of a read of n bytes whose complete contents are in S: all of
\* them, or, at the end of a truncated file, only the first k < n
Reads(S, n) ==
    IF at_eof THEN { << >> }
    ELSE S \cup (IF n > 0 THEN { SubSeq(d, 1, k) : d \in S, k \in { 0, n \div 2 } } ELSE {})

\* the file registers handle h at base address 65536 * h
BaseAddressOf(h) == 65536 * h
BankSizes == { 8, 4096 }
RegisterPayloads ==
    { << h >> \o PackU32(BaseAddressOf(h)) \o << 1 >> \o PackU32(s) \o << 1 >> :
        h \in Handles, s \in BankSizes }
SelectPayloads == { << h, 0 >> : h \in Handles }
SectorGroups == { << 2, 4 >>, << 1, 4 >>, << 4, 1024 >>, << 0, 8 >> }
SectorMapPayloads == { PackU32(g[1]) \o PackU32(g[2]) : g \in SectorGroups }
EraseRequests == { << 0, 0 >>, << 0, 8 >>, << 4, 4 >>, << 2, 3 >>, << 0, 4096 >>,
                   << 1024, 2048 >>, << 0, 4097 >> }
ErasePayloads == { PackU32(r[1]) \o PackU32(r[2]) : r \in EraseRequests }
WriteHeaders == { PackU32(o) \o PackU32(0) : o \in { 0, 4, 8 } }
PlatformPayloads == { << 1, 0, 0, 0 >> }
FillBytes == { 1, 255 }
\* the record at hand declares a payload of more than two chunks
LongPayload == data_length - UWF_WRITE_BLOCK_HDR_LENGTH > 2 * DATA_BLOCK_SIZE
\* the contents the file can hold for the chunk of n bytes at hand: in a
\* payload of at most two chunks each chunk is filled with either byte, in a
\* longer payload with one byte or the other by turns
ChunkData(n) ==
    IF LongPayload
    THEN { Fill(n, IF (loc.offset \div DATA_BLOCK_SIZE) % 2 = 0 THEN 1 ELSE 255) }
    ELSE { Fill(n, v) : v \in FillBytes }
\* what file.read(n) returns for the chunk: all of it, or, in a file that
\* ends inside it, its first half and nothing from then on; the files
\* explored cut a payload short only when it is of at most two chunks
ChunkReads(n) ==
    IF at_eof THEN { << >> }
    ELSE ChunkData(n) \cup (IF LongPayload THEN {}
                            ELSE { SubSeq(d, 1, n \div 2) : d \in ChunkData(n) })

\* the answers of the port to a read of one byte: 'a', 'f', another ASCII
\* byte, a byte that is no UTF-8, nothing within the timeout
Responses == { << RESPONSE_ACKNOWLEDGE >>, << RESPONSE_ERROR >>, << 120 >>, << 200 >>, << >> }
SyncResponses == { Fill(RESPONSE_ATS_SIZE, 0), Fill(RESPONSE_ATS_SIZE - 1, 0), << >> }
\* the port raised serial.SerialException instead of answering
Fault == << None >>

\* ------------------------------------------------------------------------
\* Init: before init_processor is called (line 57 of the driver)
\* ------------------------------------------------------------------------
\* the driver before init_processor is called for the class of dev_type t
InitOf(t) ==
    /\ pc = "init"
    /\ exit_code = EXIT_CODE_SUCCESS
    /\ error = Unbound
    /\ cmd = None /\ data_length = 0
    /\ at_eof = FALSE /\ consumed = 0
    /\ synchronized = FALSE /\ registered = FALSE
    /\ erased = FALSE /\ write_complete = FALSE
    /\ sectors = << >> /\ sector_size = << >>
    /\ selected_handle = None /\ selected_bank = None
    /\ mem_base_address = EmptyDict /\ mem_num_banks = EmptyDict
    /\ mem_bank_size = EmptyDict /\ mem_bank_algo = EmptyDict
    /\ it = NoIter /\ loc = NoLoc /\ yielded = << >>
    /\ sent = << >> /\ rcvd = << >> /\ reboots = 0 /\ closed = FALSE
    /\ created = FALSE /\ dev_type = t /\ erased_handles = {}
    /\ ended = "running"
    /\ malformed = FALSE
    /\ nrec = 0

Init == InitOf(DEVICE_TYPE_GENERIC)

\* ------------------------------------------------------------------------
\* The driver's except clauses (lines 94-99): the run is over, no reboot
\* ------------------------------------------------------------------------
\* except clauses that leave the exit status as it was
RaiseKeepsStatus(kind) ==
    /\ pc' = "done"
    /\ ended' = kind
    /\ UNCHANGED << exit_code, error >>

\* kind "serial": serial.SerialException; kind "exception": any other
Raise(kind) ==
    /\ pc' = "done"
    /\ exit_code' = IF kind = "serial" THEN ENETUNREACH ELSE EPERM
    /\ ended' = kind
    /\ UNCHANGED error

\* the run goes on at position p
GoTo(p) == pc' = p /\ UNCHANGED << exit_code, error, ended >>

\* a handler returns err to the driver
Return(err) ==
    /\ pc' = "check"
    /\ error' = err
    /\ UNCHANGED << exit_code, ended >>

\* ------------------------------------------------------------------------
\* init_processor: the constructor and enter_bootloader, whose result the
\* caller drops
\* ------------------------------------------------------------------------
\* the classes whose enter_bootloader goes through the device service of the
\* host instead of the port
EntersViaHost(t) == t = DEVICE_TYPE_BL654IG

\* the classes whose process_reboot writes the reboot command; the others
\* reset the module with a break on the line or through the host
RebootsByCommand(t) == t = DEVICE_TYPE_GENERIC

\* enter_bootloader of the base class, which BL652, BL653, BL654, BT900 and
\* RM1XX call after their break on the line
EnterBootloader ==
    \E r \in Responses \cup { Fault } :      \* r: what readline returned
        /\ created' = (r # Fault)
        /\ sent' = Log(sent, << 65, 84, 43, 70, 85, 80, 13 >>)
        /\ rcvd' = IF r = Fault THEN rcvd ELSE Log(rcvd, r)
        /\ IF r = Fault
           THEN Raise("serial")
           ELSE pc' = "read" /\ UNCHANGED << exit_code, ended, error >>

\* enter_bootloader of Ig60Bl654UwfProcessor: SetBtBootMode, then a readline
\* whose result is dropped; a non-zero SetBtBootMode raises Exception
EnterBootloaderIg60 ==
    \E r \in Responses \cup { Fault }, set_failed \in BOOLEAN :
        /\ created' = (r # Fault /\ ~set_failed)
        /\ UNCHANGED sent
        /\ rcvd' = IF r = Fault \/ set_failed THEN rcvd ELSE Log(rcvd, r)
        /\ IF set_failed THEN Raise("exception")
           ELSE IF r = Fault THEN Raise("serial")
           ELSE pc' = "read" /\ UNCHANGED << exit_code, ended, error >>

InitProcessor ==
    /\ pc = "init"
    /\ \/ /\ created' = FALSE                   \* serial.Serial raised
          /\ Raise("serial")
          /\ UNCHANGED << sent, rcvd >>
       \/ IF EntersViaHost(dev_type) THEN EnterBootloaderIg60 ELSE EnterBootloader
    /\ UNCHANGED << hdr, file, session, work, reboots, closed, malformed, nrec, dev_type, erased_handles >>

\* ------------------------------------------------------------------------
\* process_reboot: 'z' to the port in the base class, a break on the line or
\* a call of the host in the others; then close
\* ------------------------------------------------------------------------
\* a reboot after which the loop of the driver goes on
ProcessRebootGoesOn(r, code, how) ==
    /\ reboots' = reboots + 1
    /\ IF r = Fault
       THEN /\ Raise("serial")
            /\ UNCHANGED << sent, rcvd, closed >>
       ELSE /\ sent' = IF RebootsByCommand(dev_type)
                    THEN Log(sent, << COMMAND_REBOOT_BOOTLOADER >>) ELSE sent
            /\ UNCHANGED rcvd
            /\ closed' = TRUE
            /\ pc' = "read"
            /\ exit_code' = code
            /\ ended' = how
            /\ UNCHANGED error

\* r = Fault: ser.write raised SerialException, which ends the run
ProcessReboot(r, code, how) ==
    /\ reboots' = reboots + 1
    /\ IF r = Fault
       THEN /\ Raise("serial")
            /\ UNCHANGED << sent, rcvd, closed >>
       ELSE /\ sent' = IF RebootsByCommand(dev_type)
                    THEN Log(sent, << COMMAND_REBOOT_BOOTLOADER >>) ELSE sent
            /\ UNCHANGED rcvd
            /\ closed' = TRUE
            /\ pc' = "done"
            /\ exit_code' = code
            /\ ended' = how
            /\ UNCHANGED error

\* ------------------------------------------------------------------------
\* The record loop of the driver (lines 59-93)
\* ------------------------------------------------------------------------
\* the length rule of the file format for a known opcode
LengthRule(tag, n) ==
    CASE tag = UWF_COMMAND_TARGET_PLATFORM -> n = 4
      [] tag = UWF_COMMAND_REGISTER -> n = 11
      [] tag = UWF_COMMAND_SELECT -> n = 2
      [] tag = UWF_COMMAND_SECTOR_MAP -> n % 8 = 0
      [] tag = UWF_COMMAND_ERASE -> n = 8
      [] tag = UWF_COMMAND_WRITE -> n >= 8
      [] tag = UWF_COMMAND_UNREGISTER -> n = 1
      [] OTHER -> TRUE

\* lines 61-64 and 90-93: read the header; nothing read is the end of the file
ReadHeader ==
    /\ pc = "read"
    /\ \E bytes \in Reads(FullHeaders, UWF_COMMAND_HEADER_LENGTH)
                        \cup (IF at_eof THEN {} ELSE PartialHeaders),
          r \in { << >>, Fault } :
        IF bytes = << >>
        THEN /\ ProcessReboot(r, exit_code, "eof")
             /\ UNCHANGED << hdr, file, session, work, proc, erased_handles, malformed, nrec >>
        ELSE /\ r = << >>
             /\ at_eof' = (Len(bytes) < UWF_COMMAND_HEADER_LENGTH)
             /\ consumed' = 0
             /\ nrec' = IF nrec = 0 THEN 1 ELSE 2
             /\ sent' = << >> /\ rcvd' = << >>
             /\ it' = NoIter /\ loc' = NoLoc /\ yielded' = << >>
             /\ IF DecodeRaises(Slice(bytes, 0, 1)) \/ Len(Slice(bytes, 2, 6)) # 4
                THEN /\ Raise("exception")
                     /\ malformed' = TRUE
                     /\ UNCHANGED hdr
                ELSE /\ cmd' = bytes[1]
                     /\ data_length' = UnpackU32(Slice(bytes, 2, 6))
                     /\ malformed' = (malformed \/ ~LengthRule(bytes[1], UnpackU32(Slice(bytes, 2, 6))))
                     /\ GoTo("dispatch")
             /\ UNCHANGED << session, reboots, closed, proc, erased_handles >>

\* the if-chain of lines 66-83: which handler the record goes to
Dispatches(tag, n) ==
    CASE tag = UWF_COMMAND_TARGET_PLATFORM /\ n = UWF_TARGET_PLATFORM_LENGTH -> "T"
      [] tag = UWF_COMMAND_REGISTER /\ n = UWF_REGISTER_DEVICE_LENGTH -> "G"
      [] tag = UWF_COMMAND_SELECT /\ n = UWF_SELECT_DEVICE_LENGTH -> "S"
      [] tag = UWF_COMMAND_SECTOR_MAP /\ n = UWF_SECTOR_MAP_LENGTH -> "M"
      [] tag = UWF_COMMAND_ERASE /\ n = UWF_ERASE_BLOCK_LENGTH -> "E"
      [] tag = UWF_COMMAND_WRITE /\ n >= UWF_WRITE_BLOCK_LENGTH -> "W"
      [] tag = UWF_COMMAND_UNREGISTER /\ n = UWF_UNREGISTER_DEVICE_LENGTH -> "U"
      [] OTHER -> "skip"

Handler == Dispatches(cmd, data_length)

\* lines 80-83: any other record is read over; `error` keeps what it had
SkipRecord ==
    /\ pc = "dispatch" /\ Handler = "skip"
    /\ \E got \in Reads({ Fill(data_length, 0) }, data_length) :
        /\ at_eof' = (at_eof \/ Len(got) < data_length)
        /\ consumed' = consumed + Len(got)
        /\ malformed' = (malformed \/ Len(got) < data_length)
    /\ GoTo("check")
    /\ UNCHANGED << hdr, session, work, port, proc, erased_handles, nrec >>

\* lines 85-89: a handler's error ends the run with the reboot; reading
\* `error` before any handler has bound it raises NameError
CheckError ==
    /\ pc = "check"
    /\ IF error = Unbound
       THEN /\ Raise("exception")
            /\ UNCHANGED port
       ELSE IF error # NoError
       THEN \E r \in { << >>, Fault } : ProcessReboot(r, EPERM, "error")
       ELSE /\ GoTo("read")
            /\ UNCHANGED port
    /\ UNCHANGED << hdr, file, session, work, proc, erased_handles, malformed, nrec >>

\* ------------------------------------------------------------------------
\* write_to_comm: what a handler does with the answer to a command
\* ------------------------------------------------------------------------
\* The command c is written; r is the answer read back. A fault of the port
\* and an answer that does not decode raise; the answer 'a' goes on with
\* acked (a formula for pc', error', exit_code', ended'); any other answer
\* returns err.
AwaitAck(r, err, acked) ==
    IF r = Fault THEN Raise("serial")
    ELSE IF DecodeRaises(r) THEN Raise("exception")
    ELSE IF IsChar(r, RESPONSE_ACKNOWLEDGE) THEN acked
    ELSE Return(err)

\* ------------------------------------------------------------------------
\* process_command_target_platform
\* ------------------------------------------------------------------------
\* lines 214-217, 241: the sync byte and its 14-byte answer
TargetPlatformSync ==
    /\ pc = "dispatch" /\ Handler = "T"
    /\ sent' = Log(sent, << COMMAND_SYNC_WITH_BOOTLOADER >>)
    /\ \E r \in SyncResponses \cup { Fault } :
        /\ rcvd' = Log(rcvd, r)
        /\ IF r = Fault THEN Raise("serial")
           ELSE IF Len(r) = RESPONSE_ATS_SIZE THEN GoTo("tp_ack")
           ELSE Return(ErrSync)
    /\ UNCHANGED << hdr, file, session, work, reboots, closed, proc, erased_handles, malformed, nrec >>

\* lines 219-222, 239: the acknowledge of the sync answer
TargetPlatformAck ==
    /\ pc = "tp_ack"
    /\ sent' = Log(sent, << RESPONSE_ACKNOWLEDGE >>)
    /\ \E r \in Responses \cup { Fault } :
        /\ rcvd' = Log(rcvd, r)
        /\ AwaitAck(r, ErrAtsAck, GoTo("tp_id"))
    /\ UNCHANGED << hdr, file, session, work, reboots, closed, proc, erased_handles, malformed, nrec >>

\* a flag that follows the last response
SetByAck(flag, r) == IsChar(r, RESPONSE_ACKNOWLEDGE)

\* lines 232-233: the flag is assigned True on an acknowledge and is not
\* assigned otherwise
SetOnAck(flag, r) == flag \/ IsChar(r, RESPONSE_ACKNOWLEDGE)

\* lines 224-237: the platform id is read from the file and sent; printing
\* it unpacks it, which raises when the file gave fewer than 4 bytes
TargetPlatformId ==
    /\ pc = "tp_id"
    /\ \E platform_id \in Reads(PlatformPayloads, data_length) :
        /\ at_eof' = (at_eof \/ Len(platform_id) < data_length)
        /\ consumed' = consumed + Len(platform_id)
        /\ malformed' = (malformed \/ Len(platform_id) < data_length)
        /\ IF Len(platform_id) # 4
           THEN /\ Raise("exception")
                /\ UNCHANGED << sent, rcvd, synchronized >>
           ELSE /\ sent' = Log(sent, << COMMAND_PLATFORM_CHECK >> \o platform_id)
                /\ \E r \in Responses \cup { Fault } :
                    /\ rcvd' = Log(rcvd, r)
                    /\ IF r = Fault THEN Raise("serial")
                       ELSE IF DecodeRaises(r) THEN Raise("exception")
                       ELSE IF IsChar(r, RESPONSE_ACKNOWLEDGE) THEN Return(NoError)
                       ELSE IF IsChar(r, RESPONSE_ERROR) THEN Return(ErrPlatformId)
                       ELSE Return(ErrPlatformNonAck)
                    /\ synchronized' = SetOnAck(synchronized, r)
    /\ UNCHANGED << hdr, registered, erased, write_complete, smap, sel, mem, work,
                    reboots, closed, proc, erased_handles, nrec >>

\* ------------------------------------------------------------------------
\* The bookkeeping handlers
\* ------------------------------------------------------------------------
\* process_command_register_device: each field is stored as soon as it is
\* unpacked, so a payload cut short leaves the fields before the cut stored
\* what the base handler does with the payload d it has read
RegisterStores(d) ==
    LET handle == d[1]
        got(lo, hi) == Len(Slice(d, lo, hi)) = hi - lo
    IN  /\ at_eof' = (at_eof \/ Len(d) < data_length)
        /\ consumed' = consumed + Len(d)
        /\ malformed' = (malformed \/ Len(d) < data_length)
        /\ loc' = [NoLoc EXCEPT !.register_device_data = d]
        /\ mem_base_address' = IF got(0, 1) /\ got(1, 5)
                               THEN Put(mem_base_address, handle, UnpackU32(Slice(d, 1, 5)))
                               ELSE mem_base_address
        /\ mem_num_banks' = IF got(1, 5) /\ got(5, 6)
                            THEN Put(mem_num_banks, handle, d[6])
                            ELSE mem_num_banks
        /\ mem_bank_size' = IF got(5, 6) /\ got(6, 10)
                            THEN Put(mem_bank_size, handle, UnpackU32(Slice(d, 6, 10)))
                            ELSE mem_bank_size
        /\ mem_bank_algo' = IF got(6, 10) /\ got(10, 11)
                            THEN Put(mem_bank_algo, handle, d[11])
                            ELSE mem_bank_algo
        /\ registered' = (registered \/ Len(d) = UWF_REGISTER_DEVICE_LENGTH)

\* S: the payloads the file can hold at this place
RegisterDeviceFrom(S) ==
    /\ pc = "dispatch" /\ Handler = "G"
    /\ \E d \in Reads(S, data_length) :
        /\ RegisterStores(d)
        /\ IF Len(d) = UWF_REGISTER_DEVICE_LENGTH THEN Return(NoError) ELSE Raise("exception")
    /\ UNCHANGED << hdr, synchronized, erased, write_complete, smap, sel, it, yielded,
                    port, proc, erased_handles, nrec >>

\* process_command_register_device of Ig60Bl654UwfProcessor: the base handler,
\* then a test of self.handle, self.num_banks, self.bank_size and
\* self.bank_algo, none of which any class assigns: reading self.handle
\* raises AttributeError
RegisterDeviceIg60(S) ==
    /\ pc = "dispatch" /\ Handler = "G"
    /\ \E d \in Reads(S, data_length) :
        /\ RegisterStores(d)
        /\ Raise("exception")
    /\ UNCHANGED << hdr, synchronized, erased, write_complete, smap, sel, it, yielded,
                    port, proc, erased_handles, nrec >>

\* with the BL652 class overriding the handler as well
OverridesRegisterToo(t) == t \in { DEVICE_TYPE_BL654IG, DEVICE_TYPE_BL652 }

\* the classes that override process_command_register_device
OverridesRegister(t) == t = DEVICE_TYPE_BL654IG

RegisterDevice ==
    IF OverridesRegister(dev_type)
    THEN RegisterDeviceIg60(RegisterPayloads)
    ELSE RegisterDeviceFrom(RegisterPayloads)

\* process_command_select_device
SelectDevice ==
    /\ pc = "dispatch" /\ Handler = "S"
    /\ \E d \in Reads(SelectPayloads, data_length) :
        /\ at_eof' = (at_eof \/ Len(d) < data_length)
        /\ consumed' = consumed + Len(d)
        /\ malformed' = (malformed \/ Len(d) < data_length)
        /\ selected_handle' = IF Len(d) >= 1 THEN d[1] ELSE selected_handle
        /\ selected_bank' = IF Len(d) >= 2 THEN d[2] ELSE selected_bank
        /\ IF Len(d) >= 2 THEN Return(NoError) ELSE Raise("exception")
    /\ UNCHANGED << hdr, flags, smap, mem, work, port, proc, erased_handles, nrec >>

\* process_command_unregister
UnregisterDevice ==
    /\ pc = "dispatch" /\ Handler = "U"
    /\ \E d \in Reads({ << h >> : h \in Handles }, data_length) :
        /\ at_eof' = (at_eof \/ Len(d) < data_length)
        /\ consumed' = consumed + Len(d)
        /\ malformed' = (malformed \/ Len(d) < data_length)
        /\ IF Len(d) >= 1 THEN Return(NoError) ELSE Raise("exception")
    /\ UNCHANGED << hdr, session, work, port, proc, erased_handles, nrec >>

\* __VerifySectorMap, on the map given
RECURSIVE MapSum(_, _)
MapSum(secs, sizes) ==
    IF secs = << >> THEN 0
    ELSE secs[1] * sizes[1] + MapSum(Tail(secs), Tail(sizes))

VerifySectorMap(secs, sizes, banksize) == MapSum(secs, sizes) = banksize

\* the while loop of process_command_sector_map (lines 298-308): the groups
\* of a payload of arrsize groups; a group cut short makes unpack raise and
\* leaves the numbers before the cut appended
RECURSIVE DecodeSectorMap(_, _, _, _)
DecodeSectorMap(d, arrsize, secs, sizes) ==
    IF arrsize = 0 THEN [sectors |-> secs, sector_size |-> sizes, raised |-> FALSE]
    ELSE IF Len(d) < UWF_UI32_SIZE
    THEN [sectors |-> secs, sector_size |-> sizes, raised |-> TRUE]
    ELSE IF Len(d) < 2 * UWF_UI32_SIZE
    THEN [sectors |-> Append(secs, UnpackU32(Slice(d, 0, 4))), sector_size |-> sizes,
          raised |-> TRUE]
    ELSE DecodeSectorMap(SubSeq(d, 9, Len(d)), arrsize - 1,
                         Append(secs, UnpackU32(Slice(d, 0, 4))),
                         Append(sizes, UnpackU32(Slice(d, 4, 8))))

\* process_command_sector_map; the check of the sum reads mem_bank_size of
\* the selected handle, a KeyError when that handle was never registered
SectorMap ==
    /\ pc = "dispatch" /\ Handler = "M"
    /\ \E d \in Reads(SectorMapPayloads, data_length) :
        LET arrsize == data_length \div (UWF_UI32_SIZE + UWF_UI32_SIZE)
            m == DecodeSectorMap(d, arrsize, << >>, << >>)
        IN  /\ at_eof' = (at_eof \/ Len(d) < data_length)
            /\ consumed' = consumed + Len(d)
            /\ IF arrsize * (UWF_UI32_SIZE + UWF_UI32_SIZE) # data_length
               THEN /\ Raise("exception")
                    /\ malformed' = TRUE
                    /\ UNCHANGED smap
               ELSE /\ sectors' = m.sectors
                    /\ sector_size' = m.sector_size
                    /\ IF m.raised
                       THEN Raise("exception") /\ malformed' = TRUE
                       ELSE IF selected_handle = None
                       THEN Return(NoError) /\ UNCHANGED malformed
                       ELSE IF ~HasKey(mem_bank_size, selected_handle)
                       THEN Raise("exception") /\ UNCHANGED malformed
                       ELSE IF ~VerifySectorMap(m.sectors, m.sector_size,
                                                mem_bank_size[selected_handle])
                       THEN Raise("exception") /\ malformed' = TRUE
                       ELSE Return(NoError) /\ UNCHANGED malformed
    /\ UNCHANGED << hdr, flags, sel, mem, work, port, proc, erased_handles, nrec >>

\* ------------------------------------------------------------------------
\* process_command_erase_blocks
\* ------------------------------------------------------------------------
\* a guard that does not ask for the bootloader to be synchronized
ErasePreconditionNoSync ==
    /\ registered
    /\ Len(sectors) > 0 /\ sectors[1] > 0
    /\ Len(sector_size) > 0 /\ sector_size[1] > 0

\* a guard that does not ask for a registered device
ErasePreconditionNoRegister ==
    /\ synchronized
    /\ Len(sectors) > 0 /\ sectors[1] > 0
    /\ Len(sector_size) > 0 /\ sector_size[1] > 0

\* a bank check that looks at the start of the request only
EraseStartInBank(offset, size, banksize) == offset <= banksize

\* lines 324-327: what an erase needs
ErasePrecondition ==
    /\ synchronized
    /\ registered
    /\ Len(sectors) > 0 /\ sectors[1] > 0
    /\ Len(sector_size) > 0 /\ sector_size[1] > 0

\* line 336: the request lies in the bank
EraseInBank(offset, size, banksize) == offset + size <= banksize

\* lines 322-338, 352-355: up to the construction of the iterator
EraseBegin ==
    /\ pc = "dispatch" /\ Handler = "E"
    /\ IF ~ErasePrecondition
       THEN /\ Return(ErrErasePrecond)
            /\ UNCHANGED << file, malformed, it, loc >>
       ELSE \E d \in Reads(ErasePayloads, data_length) :
            LET offset == UnpackU32(Slice(d, 0, 4))
                size == UnpackU32(Slice(d, 4, 8))
            IN  /\ at_eof' = (at_eof \/ Len(d) < data_length)
                /\ consumed' = consumed + Len(d)
                /\ malformed' = (malformed \/ Len(d) < data_length)
                /\ IF \/ ~HasKey(mem_base_address, selected_handle)
                      \/ Len(d) < 8
                      \/ ~HasKey(mem_bank_size, selected_handle)
                   THEN Raise("exception") /\ UNCHANGED << it, loc >>
                   ELSE /\ loc' = [loc EXCEPT !.baseaddr = mem_base_address[selected_handle],
                                              !.offset = offset, !.size = size]
                        /\ IF ~EraseInBank(offset, size, mem_bank_size[selected_handle])
                           THEN Return(ErrEraseSize) /\ UNCHANGED it
                           ELSE IF IterInitRaises(sectors, sector_size)
                           THEN Raise("exception") /\ UNCHANGED it
                           ELSE /\ it' = IterNew(sectors, sector_size, offset, offset + size)
                                /\ GoTo("erase_loop")
    /\ UNCHANGED << hdr, session, yielded, port, proc, erased_handles, nrec >>

\* lines 339-349: one turn of the for loop, or its else clause when the
\* iterator is exhausted
\* tracked: the step records the handle selected when the erase completes
EraseLoop(tracked) ==
    /\ pc = "erase_loop"
    /\ LET n == IterNext(it) IN
        /\ it' = n.it
        /\ IF n.value = None
           THEN /\ erased' = TRUE
                /\ erased_handles' = IF tracked THEN erased_handles \cup { selected_handle }
                                     ELSE erased_handles
                /\ Return(NoError)
                /\ UNCHANGED << sent, rcvd, yielded >>
           ELSE /\ yielded' = Append(yielded, n.value)
                /\ sent' = Log(sent, << COMMAND_ERASE_SECTOR >>
                                     \o PackU32(n.value + loc.baseaddr))
                /\ \E r \in Responses \cup { Fault } :
                     /\ rcvd' = Log(rcvd, r)
                     /\ AwaitAck(r, ErrEraseNonAck, GoTo("erase_loop"))
                /\ UNCHANGED << erased, erased_handles >>
    /\ UNCHANGED << hdr, file, synchronized, registered, write_complete, smap, sel,
                    mem, loc, reboots, closed, proc, malformed, nrec >>

EraseStep == EraseLoop(FALSE)

\* ------------------------------------------------------------------------
\* process_command_write_blocks
\* ------------------------------------------------------------------------
\* a handler that accepts a payload of any size
WriteAnySize(remaining_data_size, banksize) == TRUE

\* line 383: the payload fits the bank
WriteInBank(remaining_data_size, banksize) == remaining_data_size <= banksize

\* a payload length that counts the sub-header among the data
RemainingWithHeader(n) == n

\* line 379: the bytes of the record that follow the sub-header
RemainingDataSize(n) == n - UWF_WRITE_BLOCK_HDR_LENGTH

\* lines 366-384, 459-462: up to the while loop
WriteBegin ==
    /\ pc = "dispatch" /\ Handler = "W"
    /\ IF ~erased
       THEN /\ Return(ErrWritePrecond)
            /\ UNCHANGED << file, malformed, loc >>
       ELSE \E d \in Reads(WriteHeaders, UWF_WRITE_BLOCK_HDR_LENGTH) :
            LET offset == UnpackU32(Slice(d, 0, 4))
                remaining == RemainingDataSize(data_length)
            IN  /\ at_eof' = (at_eof \/ Len(d) < UWF_WRITE_BLOCK_HDR_LENGTH)
                /\ consumed' = consumed + Len(d)
                /\ malformed' = (malformed \/ Len(d) < UWF_WRITE_BLOCK_HDR_LENGTH)
                /\ IF \/ ~HasKey(mem_base_address, selected_handle)
                      \/ Len(d) < 8
                      \/ ~HasKey(mem_bank_size, selected_handle)
                   THEN Raise("exception") /\ UNCHANGED loc
                   ELSE IF ~WriteInBank(remaining, mem_bank_size[selected_handle])
                   THEN Return(ErrWriteSize) /\ UNCHANGED loc
                   ELSE /\ loc' = [NoLoc EXCEPT
                                    !.baseaddr = mem_base_address[selected_handle],
                                    !.offset = offset,
                                    !.remaining_data_size = remaining,
                                    !.verify_count = 1,
                                    !.verify_start_addr =
                                        PackU32(offset + mem_base_address[selected_handle])]
                        /\ GoTo("write_loop")
    /\ UNCHANGED << hdr, session, it, yielded, port, proc, erased_handles, nrec >>

\* a handler that never takes a chunk to be the last, shorter one
LastWriteNever(remaining_data_size) == FALSE

\* lines 386-388: the chunk at hand is taken to be the last one
LastWrite(remaining_data_size) == remaining_data_size < DATA_BLOCK_SIZE


\* lines 386-390: the length of the chunk at hand
BytesToWrite(remaining_data_size) ==
    IF LastWrite(remaining_data_size) THEN remaining_data_size ELSE DATA_BLOCK_SIZE

\* lines 385-400, 451-456: the test of the while loop, its else clause, and
\* the write command of one chunk
WriteCommand ==
    /\ pc = "write_loop"
    /\ IF loc.remaining_data_size > 0
       THEN LET last == LastWrite(loc.remaining_data_size)
                bytes_to_write == BytesToWrite(loc.remaining_data_size)
            IN  /\ loc' = [loc EXCEPT !.bytes_to_write = bytes_to_write,
                                      !.last_write = (loc.last_write \/ last)]
                /\ sent' = Log(sent, << COMMAND_WRITE_SECTOR >>
                                     \o PackU32(loc.offset + loc.baseaddr)
                                     \o << bytes_to_write >>)
                /\ \E r \in Responses \cup { Fault } :
                     /\ rcvd' = Log(rcvd, r)
                     /\ AwaitAck(r, ErrWriteCmd, GoTo("write_data"))
                /\ UNCHANGED write_complete
       ELSE /\ write_complete' = TRUE
            /\ Return(NoError)
            /\ UNCHANGED << loc, sent, rcvd >>
    /\ UNCHANGED << hdr, file, synchronized, registered, erased, smap, sel, mem, it,
                    yielded, reboots, closed, proc, erased_handles, malformed, nrec >>

\* a checksum byte taken from the other end of the packed sum
ChecksumByteHigh(checksum) == PackU32(checksum)[UWF_UI32_SIZE]

\* lines 413, 417: the byte of the packed checksum that goes with the data
ChecksumByte(checksum) == PackU32(checksum)[1]

\* lines 403-424, 443-450: the data command of the chunk and the counters
WriteData ==
    /\ pc = "write_data"
    /\ \E data \in ChunkReads(loc.bytes_to_write),
          r \in Responses \cup { Fault } :
        LET checksum == SumSeq(data)
            verify == loc.last_write \/ loc.verify_count >= VERIFY_WRITE_LIMIT
        IN  /\ at_eof' = (at_eof \/ Len(data) < loc.bytes_to_write)
            /\ consumed' = consumed + Len(data)
            /\ malformed' = (malformed \/ Len(data) < loc.bytes_to_write)
            /\ sent' = Log(sent, << COMMAND_DATA_SECTION >> \o data
                                 \o << ChecksumByte(checksum) >>)
            /\ rcvd' = Log(rcvd, r)
            /\ AwaitAck(r, ErrWriteData, GoTo(IF verify THEN "write_verify" ELSE "write_loop"))
            /\ loc' = IF ~IsChar(r, RESPONSE_ACKNOWLEDGE) THEN loc
                      ELSE IF verify
                      THEN [loc EXCEPT !.offset = @ + Len(data),
                                       !.remaining_data_size = @ - Len(data)]
                      ELSE [loc EXCEPT !.offset = @ + Len(data),
                                       !.remaining_data_size = @ - Len(data),
                                       !.verify_count = @ + 1,
                                       !.verify_checksum = @ + checksum,
                                       !.verify_data_block_size = @ + Len(data)]
    /\ UNCHANGED << hdr, session, it, yielded, reboots, closed, proc, erased_handles, nrec >>

\* lines 426-442: the verify command of the range written since the last one
WriteVerify ==
    /\ pc = "write_verify"
    /\ sent' = Log(sent, << COMMAND_VERIFY_DATA >> \o loc.verify_start_addr
                         \o PackU32(loc.verify_data_block_size)
                         \o PackU32(loc.verify_checksum))
    /\ \E r \in Responses \cup { Fault } :
        /\ rcvd' = Log(rcvd, r)
        /\ AwaitAck(r, ErrWriteVerify, GoTo("write_loop"))
        /\ loc' = IF IsChar(r, RESPONSE_ACKNOWLEDGE)
                  THEN [loc EXCEPT !.verify_start_addr = PackU32(loc.offset + loc.baseaddr),
                                   !.verify_count = 1,
                                   !.verify_checksum = 0,
                                   !.verify_data_block_size = 0]
                  ELSE loc
    /\ UNCHANGED << hdr, file, session, it, yielded, reboots, closed, proc, erased_handles,
                    malformed, nrec >>

\* ------------------------------------------------------------------------
\* The run
\* ------------------------------------------------------------------------
Next ==
    \/ InitProcessor
    \/ ReadHeader
    \/ SkipRecord
    \/ CheckError
    \/ TargetPlatformSync
    \/ TargetPlatformAck
    \/ TargetPlatformId
    \/ RegisterDevice
    \/ SelectDevice
    \/ UnregisterDevice
    \/ SectorMap
    \/ EraseBegin
    \/ EraseStep
    \/ WriteBegin
    \/ WriteCommand
    \/ WriteData
    \/ WriteVerify

Spec == Init /\ [][Next]_vars

\* ------------------------------------------------------------------------
\* The run, with the handle of each completed erase recorded
\* ------------------------------------------------------------------------
EraseTracked == EraseLoop(TRUE)

NextErasure ==
    \/ InitProcessor
    \/ ReadHeader
    \/ SkipRecord
    \/ CheckError
    \/ TargetPlatformSync
    \/ TargetPlatformAck
    \/ TargetPlatformId
    \/ RegisterDevice
    \/ SelectDevice
    \/ UnregisterDevice
    \/ SectorMap
    \/ EraseBegin
    \/ EraseTracked
    \/ WriteBegin
    \/ WriteCommand
    \/ WriteData
    \/ WriteVerify

SpecErasure == Init /\ [][NextErasure]_vars

\* ------------------------------------------------------------------------
\* The erase-address iterator on its own: SectorMapIter over every map of
\* up to MaxGroups groups of 1 .. MaxRun sectors and every request inside
\* the map, and over the map of the specification's example
\* ------------------------------------------------------------------------
MaxGroups == 2
MaxRun == 2
SectorSizes == { 2, 4 }

RECURSIVE MapsOfLen(_)
MapsOfLen(n) ==
    IF n = 0 THEN { [sectors |-> << >>, sector_size |-> << >>] }
    ELSE { [sectors |-> Append(m.sectors, c), sector_size |-> Append(m.sector_size, z)] :
             m \in MapsOfLen(n - 1), c \in 1..MaxRun, z \in SectorSizes }

ExampleMap == [sectors |-> << 4, 2 >>, sector_size |-> << 1024, 4096 >>]
IterMaps == UNION { MapsOfLen(n) : n \in 1..MaxGroups }

\* the requests explored on the example map: whole sectors and parts of them
ExampleRequests == { << 0, 12288 >>, << 0, 4096 >>, << 1024, 2048 >>, << 4096, 8192 >>,
                     << 3072, 5120 >>, << 0, 0 >>, << 100, 1000 >>, << 5000, 100 >> }

\* the requests << offset, size >> that lie inside the map
RequestsOf(m) ==
    IF m = ExampleMap THEN ExampleRequests
    ELSE LET total == MapSum(m.sectors, m.sector_size) IN
         { q \in (0..total) \X (0..total) : q[1] + q[2] <= total }

InitIter ==
    /\ pc = "iter"
    /\ \E m \in IterMaps \cup { ExampleMap } :
        /\ sectors = m.sectors
        /\ sector_size = m.sector_size
        /\ \E q \in RequestsOf(m) :
            /\ it = IterNew(m.sectors, m.sector_size, q[1], q[1] + q[2])
            /\ loc = [NoLoc EXCEPT !.offset = q[1], !.size = q[2]]
    /\ yielded = << >>
    /\ exit_code = EXIT_CODE_SUCCESS
    /\ error = Unbound
    /\ cmd = None /\ data_length = 0
    /\ at_eof = FALSE /\ consumed = 0
    /\ synchronized = FALSE /\ registered = FALSE
    /\ erased = FALSE /\ write_complete = FALSE
    /\ selected_handle = None /\ selected_bank = None
    /\ mem_base_address = EmptyDict /\ mem_num_banks = EmptyDict
    /\ mem_bank_size = EmptyDict /\ mem_bank_algo = EmptyDict
    /\ sent = << >> /\ rcvd = << >> /\ reboots = 0 /\ closed = FALSE
    /\ created = FALSE /\ dev_type = DEVICE_TYPE_GENERIC /\ erased_handles = {}
    /\ ended = "running"
    /\ malformed = FALSE
    /\ nrec = 0

\* `for ofs in map_iter`: one call of __next__ that returns an address
IterYield ==
    /\ pc = "iter"
    /\ LET n == IterNext(it) IN
        /\ n.value # None
        /\ it' = n.it
        /\ yielded' = Append(yielded, n.value)
    /\ UNCHANGED << pc, exit_code, error, hdr, file, session, loc, port, proc, erased_handles,
                    ended, malformed, nrec >>

\* the call of __next__ that raises StopIteration
IterStop ==
    /\ pc = "iter"
    /\ LET n == IterNext(it) IN
        /\ n.value = None
        /\ it' = n.it
    /\ pc' = "iter_done"
    /\ UNCHANGED << exit_code, error, hdr, file, session, loc, yielded, port, proc, erased_handles,
                    ended, malformed, nrec >>

NextIter == IterYield \/ IterStop

\* ------------------------------------------------------------------------
\* The run of each class up to the first WriteBlocks record
\* ------------------------------------------------------------------------
DeviceTypes ==
    { DEVICE_TYPE_GENERIC, DEVICE_TYPE_BL652, DEVICE_TYPE_BL653, DEVICE_TYPE_BL654,
      DEVICE_TYPE_BT900, DEVICE_TYPE_RM1XX, DEVICE_TYPE_BL654IG }

InitVariants == \E t \in DeviceTypes : InitOf(t)

NextVariants ==
    \/ InitProcessor
    \/ ReadHeader
    \/ SkipRecord
    \/ CheckError
    \/ TargetPlatformSync
    \/ TargetPlatformAck
    \/ TargetPlatformId
    \/ RegisterDevice
    \/ SelectDevice
    \/ UnregisterDevice
    \/ SectorMap
    \/ EraseBegin
    \/ EraseStep

SpecVariants == InitVariants /\ [][NextVariants]_vars

SpecIter == InitIter /\ [][NextIter]_vars

\* ------------------------------------------------------------------------
\* process_command_register_device alone, on payloads of every byte pattern
\* ------------------------------------------------------------------------
\* the values of a byte of the payload; the top byte of a u32 stays below 128
\* to keep the field within the integers of the checker
LowBytes == { 0, 200 }
TopBytes == { 0, 127 }
U32Bytes == { << a, b, c, d >> : a \in LowBytes, b \in LowBytes, c \in LowBytes, d \in TopBytes }
CodecPayloads ==
    { << h >> \o base \o << n >> \o size \o << algo >> :
        h \in Handles, base \in U32Bytes, n \in LowBytes, size \in U32Bytes, algo \in LowBytes }

\* the driver has read the header of a RegisterDevice record
InitCodec ==
    /\ pc = "dispatch"
    /\ cmd = UWF_COMMAND_REGISTER /\ data_length = UWF_REGISTER_DEVICE_LENGTH
    /\ exit_code = EXIT_CODE_SUCCESS
    /\ error = Unbound
    /\ at_eof = FALSE /\ consumed = 0
    /\ synchronized = FALSE /\ registered = FALSE
    /\ erased = FALSE /\ write_complete = FALSE
    /\ sectors = << >> /\ sector_size = << >>
    /\ selected_handle = None /\ selected_bank = None
    /\ mem_base_address = EmptyDict /\ mem_num_banks = EmptyDict
    /\ mem_bank_size = EmptyDict /\ mem_bank_algo = EmptyDict
    /\ it = NoIter /\ loc = NoLoc /\ yielded = << >>
    /\ sent = << >> /\ rcvd = << >> /\ reboots = 0 /\ closed = FALSE
    /\ created = TRUE /\ dev_type = DEVICE_TYPE_GENERIC /\ erased_handles = {}
    /\ ended = "running"
    /\ malformed = FALSE
    /\ nrec = 1

RegisterAny == RegisterDeviceFrom(CodecPayloads)

NextCodec == RegisterAny

SpecCodec == InitCodec /\ [][NextCodec]_vars

\* ------------------------------------------------------------------------
\* Properties
\* ------------------------------------------------------------------------
Running == pc \notin { "init", "done", "iter", "iter_done" }
IsAck(r) == r = << RESPONSE_ACKNOWLEDGE >>

\* C1: a run whose session was created has called process_reboot exactly
\* once when it returns, whichever way it ended.
C1_RebootExactlyOnce == (pc = "done" /\ created) => reboots = 1

\* C2: the run ends with exit status 0 exactly when it reached the clean end
\* of the file and no malformed record, handler error or fault came before.
C2_SuccessIffCleanEof ==
    pc = "done" => ((exit_code = EXIT_CODE_SUCCESS) <=> (ended = "eof" /\ ~malformed))

\* C3, as claimed: in every state of the session, write_complete implies
\* erased, and erased implies synchronized, registered and a non-empty
\* sector map.
C3_PreconditionChainAlways ==
    /\ write_complete => erased
    /\ erased => (synchronized /\ registered /\ Len(sectors) > 0)

\* the run was ended by a SectorMap record whose payload the file cut short:
\* the handler had emptied the map when unpack raised
CutSectorMapEndedRun ==
    pc = "done" /\ ended = "exception" /\ Handler = "M" /\ at_eof

\* C3, amended: write_complete implies erased, and erased implies
\* synchronized and registered, and a non-empty sector map in every state but
\* the final one of a run that a cut-short SectorMap record has ended.
C3_PreconditionChain ==
    /\ write_complete => erased
    /\ erased => (synchronized /\ registered /\ (Len(sectors) > 0 \/ CutSectorMapEndedRun))

C3_Witness == write_complete /\ erased /\ pc = "read" /\ error = NoError

\* C4: an EraseBlocks record met while synchronized or registered is false or
\* no sector map is present returns the precondition error, writes nothing to
\* the port and leaves the four flags as they were, erased being false.
C4_ErasePreconditionError ==
    [][(pc = "dispatch" /\ Handler = "E"
            /\ ~(synchronized /\ registered /\ Len(sectors) > 0))
        => (/\ pc' = "check"
            /\ error' = ErrErasePrecond
            /\ sent = << >> /\ sent' = << >>
            /\ UNCHANGED flags
            /\ ~erased')]_vars

C4_Witness ==
    /\ pc = "check" /\ Handler = "E" /\ error = ErrErasePrecond
    /\ synchronized /\ ~registered /\ Len(sectors) > 0 /\ sectors[1] > 0
    /\ sent = << >>

\* the step is one in which a WriteBlocks record writes to the port
WriteSends == pc \in { "write_loop", "write_data", "write_verify" } /\ sent' # sent

\* the record at hand is a WriteBlocks whose payload does not fit the bank of
\* the selected, registered handle
WriteTooLong ==
    /\ HasKey(mem_base_address, selected_handle)
    /\ HasKey(mem_bank_size, selected_handle)
    /\ data_length - UWF_WRITE_BLOCK_HDR_LENGTH > mem_bank_size[selected_handle]

\* C5, as claimed: a WriteBlocks record writes to the port only when erased
\* is true and the payload is no longer than bank_size of the selected bank;
\* otherwise it returns an error, writes nothing, and write_complete is false.
\* (The record's sub-header is taken to be in the file: ~at_eof'.)
C5_WriteGuardLeavesFalse ==
    [][/\ WriteSends => (erased /\ ~WriteTooLong)
       /\ (pc = "dispatch" /\ Handler = "W" /\ (~erased \/ (WriteTooLong /\ ~at_eof')))
            => (/\ pc' = "check"
                /\ error' = (IF ~erased THEN ErrWritePrecond ELSE ErrWriteSize)
                /\ sent = << >> /\ sent' = << >>
                /\ ~write_complete')]_vars

\* C5, amended: a WriteBlocks record writes to the port only when erased is
\* true and the payload is no longer than bank_size of the selected bank;
\* when erased is false, or the sub-header was read and the payload is longer
\* than bank_size of the selected, registered bank, it returns an error,
\* writes nothing, and leaves write_complete as it was (true when an earlier
\* WriteBlocks had set it).
C5_WriteGuard ==
    [][/\ WriteSends => (/\ erased
                         /\ HasKey(mem_bank_size, selected_handle)
                         /\ ~WriteTooLong)
       /\ (pc = "dispatch" /\ Handler = "W" /\ (~erased \/ (WriteTooLong /\ ~at_eof')))
            => (/\ pc' = "check"
                /\ error' = (IF ~erased THEN ErrWritePrecond ELSE ErrWriteSize)
                /\ sent = << >> /\ sent' = << >>
                /\ UNCHANGED write_complete)]_vars

C5_Witness ==
    /\ pc = "check" /\ Handler = "W" /\ error = ErrWriteSize
    /\ erased /\ WriteTooLong /\ sent = << >>

\* C6: once a sector map and a selection of a registered bank are both known,
\* in whichever order they came, a map whose sum differs from bank_size of
\* the selected bank has ended the run: no later record is dispatched.
C6_MapSumCheckedEitherOrder ==
    (/\ pc = "dispatch"
     /\ HasKey(mem_bank_size, selected_handle)
     /\ Len(sectors) > 0)
    => VerifySectorMap(sectors, sector_size, mem_bank_size[selected_handle])


\* an EraseBlocks record is at work, or has just returned
InErase == pc = "erase_loop" \/ (pc = "check" /\ Handler = "E")

\* C9: EraseBlocks sends one erase command per address the iterator yields,
\* carrying base_address + that address, each after the ack of the one
\* before; the first answer that is not the ack ends the record with the
\* erase error, nothing more being sent and erased being false; erased
\* becomes true only when every erase command of the record was acked.
C9_EraseAckProtocol ==
    /\ [](InErase =>
            /\ Len(sent) = Len(yielded) /\ Len(rcvd) = Len(sent)
            /\ \A i \in 1..Len(sent) :
                 sent[i] = << COMMAND_ERASE_SECTOR >>
                           \o PackU32(mem_base_address[selected_handle] + yielded[i])
            /\ \A i \in 1..(Len(rcvd) - 1) : IsAck(rcvd[i]))
    /\ [][(pc = "erase_loop" /\ rcvd' # rcvd
               /\ rcvd'[Len(rcvd')] # Fault /\ ~IsAck(rcvd'[Len(rcvd')]))
            => (pc' = "check" /\ error' = ErrEraseNonAck /\ ~erased')]_vars
    /\ [][(~erased /\ erased')
            => (/\ pc = "erase_loop"
                /\ Len(rcvd) = Len(yielded)
                /\ \A i \in 1..Len(rcvd) : IsAck(rcvd[i]))]_vars

\* C10: an EraseBlocks record whose offset + size exceeds bank_size of the
\* selected bank returns an error, sends no erase command and leaves erased
\* as it was.
C10_EraseBeyondBank ==
    [][(/\ pc = "dispatch" /\ Handler = "E"
        /\ HasKey(mem_bank_size, selected_handle)
        /\ loc'.offset + loc'.size > mem_bank_size[selected_handle])
        => (/\ pc' = "check"
            /\ error' = ErrEraseSize
            /\ sent' = << >> /\ yielded' = << >>
            /\ it' = NoIter
            /\ UNCHANGED flags)]_vars

C10_Witness ==
    /\ pc = "check" /\ Handler = "E" /\ error = ErrEraseSize
    /\ loc.offset + loc.size > mem_bank_size[selected_handle]
    /\ sent = << >>

\* the sectors a map declares, in address order, each as << base, size >>:
\* group i is sectors[i] consecutive sectors of sector_size[i] bytes
RECURSIVE SectorList(_, _, _)
SectorList(secs, sizes, base) ==
    IF secs = << >> THEN << >>
    ELSE [k \in 1..secs[1] |-> << base + (k - 1) * sizes[1], sizes[1] >>]
         \o SectorList(Tail(secs), Tail(sizes), base + secs[1] * sizes[1])

Sectors == SectorList(sectors, sector_size, 0)
Yielded(a) == \E i \in 1..Len(yielded) : yielded[i] = a
ReqEnd == loc.offset + loc.size

\* C7: for a request inside a non-empty map, the iterator yields the base of
\* a sector exactly when base + size > offset and base < offset + size.
C7_YieldsIffOverlaps ==
    (pc = "iter_done" /\ Len(sectors) > 0 /\ ReqEnd <= MapSum(sectors, sector_size)) =>
        \A k \in 1..Len(Sectors) :
            Yielded(Sectors[k][1])
                <=> (Sectors[k][1] + Sectors[k][2] > loc.offset /\ Sectors[k][1] < ReqEnd)

\* a is the base of a sector of the map, or its end
OnBoundary(a) ==
    a = MapSum(sectors, sector_size) \/ \E k \in 1..Len(Sectors) : Sectors[k][1] = a

InsideRequest(s) == loc.offset <= s[1] /\ s[1] + s[2] <= ReqEnd

\* C8: for a request of positive size that starts and ends on sector
\* boundaries the iterator yields exactly the bases of the sectors inside
\* [offset, offset + size), each once, in ascending order.
C8_AlignedRequest ==
    (pc = "iter_done" /\ loc.size > 0 /\ OnBoundary(loc.offset) /\ OnBoundary(ReqEnd))
        => /\ yielded = [i \in 1..Len(SelectSeq(Sectors, InsideRequest)) |->
                            SelectSeq(Sectors, InsideRequest)[i][1]]
           /\ \A i, j \in 1..Len(yielded) : i < j => yielded[i] < yielded[j]

C8_Witness ==
    /\ pc = "iter_done"
    /\ sectors = << 4, 2 >> /\ sector_size = << 1024, 4096 >>
    /\ loc.offset = 0 /\ loc.size = 12288
    /\ yielded = << 0, 1024, 2048, 3072, 4096, 8192 >>

\* ------------------------------------------------------------------------
\* WriteBlocks: chunks and verifies
\* ------------------------------------------------------------------------
IsWriteCmd(c) == c[1] = COMMAND_WRITE_SECTOR
IsDataCmd(c) == c[1] = COMMAND_DATA_SECTION
IsVerifyCmd(c) == c[1] = COMMAND_VERIFY_DATA
WriteCmds == SelectSeq(sent, IsWriteCmd)
DataCmds == SelectSeq(sent, IsDataCmd)

\* the payload length the record declares, and the number of its chunks
PayloadLength == data_length - UWF_WRITE_BLOCK_HDR_LENGTH
NumChunks == (PayloadLength + DATA_BLOCK_SIZE - 1) \div DATA_BLOCK_SIZE
ChunkLength(i) == Min(DATA_BLOCK_SIZE, PayloadLength - (i - 1) * DATA_BLOCK_SIZE)

\* the bytes of the chunk a data command carries
ChunkOf(c) == SubSeq(c, 2, Len(c) - 1)

\* a WriteBlocks record has returned without error, every command acked, its
\* payload whole in the file and every command of it in the log
WriteAllAcked ==
    /\ pc = "check" /\ Handler = "W" /\ error = NoError
    /\ ~at_eof /\ Len(sent) < MaxLog

\* C11: when every command is acked, a WriteBlocks of L payload bytes sends
\* ceil(L / B) write+data pairs, write before data; chunk i is B bytes long,
\* the last one L - (n-1)B; the lengths sum to L; the write command of chunk
\* i carries base_address + write_offset + (i-1)B and the chunk's length; the
\* chunks are consecutive slices: loc.offset has advanced by L.
C11_ChunksOfPayload ==
    WriteAllAcked =>
        LET write_offset == loc.offset - PayloadLength IN
        /\ Len(WriteCmds) = NumChunks /\ Len(DataCmds) = NumChunks
        /\ \A i \in 1..NumChunks :
            /\ WriteCmds[i] = << COMMAND_WRITE_SECTOR >>
                    \o PackU32(mem_base_address[selected_handle] + write_offset
                               + (i - 1) * DATA_BLOCK_SIZE)
                    \o << ChunkLength(i) >>
            /\ Len(ChunkOf(DataCmds[i])) = ChunkLength(i)
            /\ ChunkOf(DataCmds[i]) \in { Fill(ChunkLength(i), v) : v \in FillBytes }
        /\ SumSeq([i \in 1..NumChunks |-> Len(ChunkOf(DataCmds[i]))]) = PayloadLength
        /\ \A k \in 1..Len(sent) :
             IsWriteCmd(sent[k]) => (k < Len(sent) /\ IsDataCmd(sent[k + 1]))

C11_Witness ==
    /\ WriteAllAcked /\ data_length = 308 /\ loc.offset = 304
    /\ Len(WriteCmds) = 2
    /\ WriteCmds[2] = << COMMAND_WRITE_SECTOR >>
                      \o PackU32(mem_base_address[selected_handle] + 4 + 252) \o << 48 >>

\* the number of data commands among the first k commands of the record
DataIndex(k) == Cardinality({ j \in 1..k : IsDataCmd(sent[j]) })

\* the number of data commands from the last verify before command k (or
\* from the start of the record) up to command k
SinceVerify(k) ==
    Cardinality({ j \in 1..k :
                    /\ IsDataCmd(sent[j])
                    /\ \A i \in j..k : ~IsVerifyCmd(sent[i]) })

VerifyFollows(k) == k < Len(sent) /\ IsVerifyCmd(sent[k + 1])

\* C12: when every command is acked, a verify command follows the data
\* command of a chunk exactly when the chunk is the 8th since the last verify
\* (or since the start of the record) or the final chunk of the payload.
C12_VerifyEighthOrFinal ==
    WriteAllAcked =>
        \A k \in 1..Len(sent) :
            IsDataCmd(sent[k]) =>
                (VerifyFollows(k) <=> (\/ SinceVerify(k) = VERIFY_WRITE_LIMIT
                                       \/ DataIndex(k) = NumChunks))

\* a WriteBlocks record is at work or has just returned, and every command
\* it has sent is in the log
InWrite ==
    /\ \/ pc \in { "write_loop", "write_data", "write_verify" }
       \/ pc = "check" /\ Handler = "W"
    /\ Len(sent) < MaxLog

\* of the commands 1..k of the record, those sent since the last verify: the
\* number of bytes their data commands carry, the sum of these bytes, and the
\* address of the first write command among them (<< >> if there is none)
RECURSIVE CoveredLength(_)
CoveredLength(k) ==
    IF k = 0 \/ IsVerifyCmd(sent[k]) THEN 0
    ELSE CoveredLength(k - 1) + (IF IsDataCmd(sent[k]) THEN Len(ChunkOf(sent[k])) ELSE 0)

RECURSIVE CoveredSum(_)
CoveredSum(k) ==
    IF k = 0 \/ IsVerifyCmd(sent[k]) THEN 0
    ELSE CoveredSum(k - 1) + (IF IsDataCmd(sent[k]) THEN SumSeq(ChunkOf(sent[k])) ELSE 0)

RECURSIVE RangeStart(_)
RangeStart(k) ==
    IF k = 0 \/ IsVerifyCmd(sent[k]) THEN << >>
    ELSE IF RangeStart(k - 1) # << >> THEN RangeStart(k - 1)
    ELSE IF IsWriteCmd(sent[k]) THEN SubSeq(sent[k], 2, 5)
    ELSE << >>

\* C13: every verify command carries the address of the first chunk no
\* earlier verify covers, the number of bytes written from there up to and
\* including the chunk that triggered it, and the 32-bit sum of these bytes.
C13_VerifyCoversRange ==
    InWrite =>
        \A k \in 1..Len(sent) :
            IsVerifyCmd(sent[k]) =>
                sent[k] = << COMMAND_VERIFY_DATA >> \o RangeStart(k - 1)
                          \o PackU32(CoveredLength(k - 1))
                          \o PackU32(CoveredSum(k - 1))

\* C14: the last byte of every data command is the sum of the bytes of its
\* chunk modulo 256 (every data command is the last of the log when sent).
C14_ChecksumByte ==
    (InWrite /\ Len(sent) > 0 /\ IsDataCmd(sent[Len(sent)])) =>
        LET c == sent[Len(sent)] IN c[Len(c)] = SumSeq(ChunkOf(c)) % 256

C14_Witness ==
    /\ InWrite /\ Len(sent) >= 2 /\ IsDataCmd(sent[2])
    /\ ChunkOf(sent[2]) = Fill(DATA_BLOCK_SIZE, 255)
    /\ sent[2][Len(sent[2])] = 4

\* the step sends a command of a WriteBlocks record and its answer r came
\* from the port and is not the ack: nothing within the timeout, or a byte
\* other than 'a'
WriteStepNonAck ==
    /\ pc \in { "write_loop", "write_data", "write_verify" }
    /\ Len(rcvd) < MaxLog /\ Len(rcvd') = Len(rcvd) + 1
    /\ rcvd'[Len(rcvd')] # Fault /\ ~IsAck(rcvd'[Len(rcvd')])

\* the error that names the sub-step at position p
WriteErrorOf(p) ==
    CASE p = "write_loop" -> ErrWriteCmd
      [] p = "write_data" -> ErrWriteData
      [] p = "write_verify" -> ErrWriteVerify

\* C15: in WriteBlocks an answer to a write, data or verify command that is
\* missing or not the ack ends the record at once with the error of that
\* sub-step and write_complete false; the driver then reboots exactly once
\* and nothing but the reboot command is written.
C15_WriteNonAckAborts ==
    /\ [][WriteStepNonAck
            => (pc' = "check" /\ error' = WriteErrorOf(pc) /\ ~write_complete')]_vars
    /\ [][(pc = "check" /\ Handler = "W"
                /\ error \in { ErrWriteCmd, ErrWriteData, ErrWriteVerify })
            => (/\ pc' = "done"
                /\ reboots = 0 /\ reboots' = 1
                /\ sent' \in { sent, Append(sent, << COMMAND_REBOOT_BOOTLOADER >>) })]_vars

\* ------------------------------------------------------------------------
\* TargetPlatform
\* ------------------------------------------------------------------------
\* the step is one of a TargetPlatform record that got answer r from the port
TargetStep == pc \in { "tp_ack", "tp_id" } \/ (pc = "dispatch" /\ Handler = "T")
AnswerOf(r) == Len(rcvd') = Len(rcvd) + 1 /\ rcvd'[Len(rcvd')] = r

\* the step of a TargetPlatform record failed: the sync answer is not of 14
\* bytes, or the answer to the acknowledge or to the platform check is not 'a'
TargetStepFails ==
    /\ TargetStep
    /\ \E r \in (SyncResponses \cup Responses) :
        /\ AnswerOf(r)
        /\ IF pc = "dispatch" THEN Len(r) # RESPONSE_ATS_SIZE ELSE ~IsAck(r)

\* C16: synchronized becomes true only in a TargetPlatform record whose sync
\* byte got 14 bytes, whose acknowledge got 'a' and whose platform check with
\* the 4-byte id got 'a', in this order; a step that fails returns an error,
\* no command of a later step is sent and synchronized is false.
C16_SyncHandshake ==
    /\ [][(~synchronized /\ synchronized')
            => (/\ pc = "tp_id"
                /\ Len(sent') = 3 /\ Len(rcvd') = 3
                /\ sent'[1] = << COMMAND_SYNC_WITH_BOOTLOADER >>
                /\ Len(rcvd'[1]) = RESPONSE_ATS_SIZE
                /\ sent'[2] = << RESPONSE_ACKNOWLEDGE >> /\ IsAck(rcvd'[2])
                /\ Len(sent'[3]) = 1 + UWF_TARGET_PLATFORM_LENGTH
                /\ sent'[3][1] = COMMAND_PLATFORM_CHECK
                /\ IsAck(rcvd'[3]))]_vars
    /\ [][TargetStepFails
            => (/\ pc' = "check"
                /\ error' \in { ErrSync, ErrAtsAck, ErrPlatformId, ErrPlatformNonAck }
                /\ ~synchronized')]_vars
    /\ [][(pc = "check" /\ Handler = "T" /\ error # NoError)
            => sent' \in { sent, Append(sent, << COMMAND_REBOOT_BOOTLOADER >>) }]_vars

\* ------------------------------------------------------------------------
\* The ack protocol
\* ------------------------------------------------------------------------
\* the positions at which a command is sent that awaits the 1-byte ack
AckPositions == { "tp_ack", "tp_id", "erase_loop", "write_loop", "write_data", "write_verify" }

\* the step sent such a command and the port answered, with something other
\* than the single byte 'a'
NonAckStep ==
    /\ pc \in AckPositions
    /\ Len(rcvd) < MaxLog /\ Len(rcvd') = Len(rcvd) + 1
    /\ rcvd'[Len(rcvd')] # Fault /\ ~IsAck(rcvd'[Len(rcvd')])

HandlerErrors == { ErrAtsAck, ErrPlatformId, ErrPlatformNonAck, ErrEraseNonAck,
                   ErrWriteCmd, ErrWriteData, ErrWriteVerify }

\* C17: whatever answer other than 'a' a command awaiting the ack gets (no
\* byte, 'f', any other byte), its handler returns its error, and the driver
\* reports it and reboots once.
C17_NonAckIsProtocolFailure ==
    /\ [][NonAckStep => (pc' = "check" /\ error' \in HandlerErrors)]_vars
    /\ [][(pc = "check" /\ error \in HandlerErrors)
            => (pc' = "done" /\ reboots = 0 /\ reboots' = 1
                /\ (ended' = "error" => exit_code' = EPERM))]_vars

\* the i-th command of the record at hand got no answer, a fault, or an
\* answer that is not the one awaited (14 bytes after the sync byte, 'a'
\* after any other command)
StepFailed(i) ==
    IF sent[i] = << COMMAND_SYNC_WITH_BOOTLOADER >>
    THEN Len(rcvd[i]) # RESPONSE_ATS_SIZE
    ELSE ~IsAck(rcvd[i])

AfterFailure == pc # "init" /\ \E i \in 1..Len(rcvd) : StepFailed(i)

\* C18: no step is retried: within a record no sync, acknowledge, platform
\* check, erase, write or verify command is sent twice (the data command of a
\* chunk goes with its write command), and after a step whose answer is
\* missing or not the ack nothing but the reboot command is written.
C18_NoRetry ==
    /\ [](\A i, j \in 1..Len(sent) :
            (i < j /\ ~IsDataCmd(sent[i])) => sent[i] # sent[j])
    /\ [][AfterFailure
            => sent' \in { sent, Append(sent, << COMMAND_REBOOT_BOOTLOADER >>) }]_vars

\* ------------------------------------------------------------------------
\* Records the driver does not hand to a handler
\* ------------------------------------------------------------------------
\* the record at hand has a tag that is no opcode
UnknownRecord == cmd # None /\ cmd \notin KnownTags

\* C19: a record whose tag is no known opcode is skipped wherever it stands
\* in the file: its payload is read over, nothing is sent, no error is
\* reported and the run goes on with the next record.
C19_UnknownOpcodeSkipped ==
    /\ [][(pc = "dispatch" /\ UnknownRecord)
            => (/\ pc' = "check"
                /\ sent' = sent /\ rcvd' = rcvd
                /\ UNCHANGED << error, exit_code, session >>)]_vars
    /\ [][(pc = "check" /\ UnknownRecord)
            => (pc' = "read" /\ UNCHANGED << exit_code, reboots, sent >>)]_vars

\* the record at hand has a known opcode and a payload length that breaks
\* the rule of that opcode
BadLength == cmd \in KnownTags /\ ~LengthRule(cmd, data_length)

\* C20: a record with a known opcode and a payload length that breaks the
\* opcode's rule ends the run with a non-zero status; the run does not go on
\* to the next record.
C20_BadLengthIsFatal ==
    [][(pc \in { "dispatch", "check" } /\ BadLength)
        => (/\ pc' \in { "check", "done" }
            /\ (pc' = "done" => exit_code' # EXIT_CODE_SUCCESS))]_vars

\* ------------------------------------------------------------------------
\* SectorMap records
\* ------------------------------------------------------------------------
\* the record at hand is a SectorMap of N >= 1 groups
SectorMapOf(N) == cmd = UWF_COMMAND_SECTOR_MAP /\ data_length = 8 * N

\* C21: a SectorMap record of length 8N, N >= 1, whose payload is whole in
\* the file, replaces the map of the session with the N groups of the
\* payload, in file order.
C21_SectorMapOfNGroups ==
    [][\A N \in 1..2 :
        (pc = "dispatch" /\ SectorMapOf(N) /\ ~at_eof')
            => \E gs \in [1..N -> SectorGroups] :
                /\ sectors' = [i \in 1..N |-> gs[i][1]]
                /\ sector_size' = [i \in 1..N |-> gs[i][2]]]_vars

\* ------------------------------------------------------------------------
\* The end of the file
\* ------------------------------------------------------------------------
\* the step reads a header and gets no byte: the driver goes to the reboot
HeaderReadEmpty == pc = "read" /\ reboots' = reboots + 1

\* the step reads a header and gets 1 to 5 bytes
HeaderReadPartial == pc = "read" /\ ~at_eof /\ at_eof'

\* C22: a header read that returns no byte ends the run as the clean end of
\* the file, without error (unless the port fails at the reboot); a header
\* read that returns 1 to 5 bytes ends the run with an error and a non-zero
\* status, and no handler is dispatched for it.
C22_HeaderAtEndOfFile ==
    /\ [][HeaderReadEmpty
            => (/\ pc' = "done"
                /\ \/ ended' = "eof" /\ exit_code' = EXIT_CODE_SUCCESS /\ error' = error
                   \/ ended' = "serial")]_vars
    /\ [][HeaderReadPartial
            => (/\ pc' = "done"
                /\ ended' = "exception"
                /\ exit_code' # EXIT_CODE_SUCCESS
                /\ sent' = << >>
                /\ UNCHANGED session)]_vars

C22_Witness ==
    /\ pc = "done" /\ ended = "exception" /\ exit_code = EPERM
    /\ at_eof /\ nrec = 2 /\ error = NoError /\ sent = << >> /\ loc = NoLoc
    /\ cmd = UWF_COMMAND_REGISTER /\ registered

\* C23: a run in which the file ended inside the declared payload of a
\* record, of a known type or not, never ends with the status of success
\* (at_eof is set by the reads that come short, and by them only).
C23_TruncatedPayloadFails ==
    pc = "done" /\ at_eof => exit_code # EXIT_CODE_SUCCESS

\* ------------------------------------------------------------------------
\* Entering the bootloader
\* ------------------------------------------------------------------------
\* enter_bootloader has returned False: readline gave a non-empty response,
\* and no header has been read yet
EnterFailed == pc = "read" /\ nrec = 0 /\ Len(rcvd) = 1 /\ rcvd[1] # << >>

\* C24: when enter_bootloader reports failure the whole run fails: the next
\* step ends it with a non-zero status, nothing more is sent to the port and
\* no record is read or dispatched.
C24_EnterFailureFailsRun ==
    [][EnterFailed
        => (pc' = "done" /\ exit_code' # EXIT_CODE_SUCCESS /\ sent' = sent /\ nrec' = nrec)]_vars

\* ------------------------------------------------------------------------
\* The layout of the RegisterDevice payload
\* ------------------------------------------------------------------------
\* the five fields the session holds for handle h
StoredFields(h) ==
    [handle |-> h, base_address |-> mem_base_address[h], num_banks |-> mem_num_banks[h],
     bank_size |-> mem_bank_size[h], bank_algo |-> mem_bank_algo[h]]

\* the fields in the layout of the record: u8, u32-LE, u8, u32-LE, u8
EncodeRegister(f) ==
    << f.handle >> \o PackU32(f.base_address) \o << f.num_banks >>
        \o PackU32(f.bank_size) \o << f.bank_algo >>

\* process_command_register_device has returned
Registered == pc = "check" /\ Handler = "G"

\* C25: the five fields that process_command_register_device has stored for
\* the handle of an 11-byte payload, encoded again in the layout of the
\* record, give the 11 bytes of the payload.
C25_RegisterRoundTrip ==
    Registered =>
        /\ Len(loc.register_device_data) = UWF_REGISTER_DEVICE_LENGTH
        /\ EncodeRegister(StoredFields(loc.register_device_data[1])) = loc.register_device_data

C25_Witness ==
    /\ Registered
    /\ loc.register_device_data = << 1, 200, 0, 200, 127, 200, 0, 200, 200, 0, 200 >>
    /\ mem_base_address[1] = 200 + 65536 * 200 + 16777216 * 127
    /\ mem_bank_size[1] = 256 * 200 + 65536 * 200

\* ------------------------------------------------------------------------
\* The reboot
\* ------------------------------------------------------------------------
\* process_reboot has been called
Rebooted == reboots >= 1

\* C26: process_reboot is called at most once in a run, and once it has been
\* called the run is over: no header is read, no handler is dispatched, and
\* nothing more goes to or comes from the port.
C26_RebootIsLast ==
    /\ [](reboots <= 1)
    /\ [](Rebooted => pc = "done")
    /\ [][Rebooted => UNCHANGED << pc, hdr, nrec, session, port >>]_vars

C26_Witness ==
    /\ Rebooted /\ closed /\ pc = "done" /\ ended = "error"
    /\ cmd = UWF_COMMAND_WRITE /\ error = ErrWriteData

\* ------------------------------------------------------------------------
\* The bookkeeping records
\* ------------------------------------------------------------------------
\* the driver is about to call the handler of a RegisterDevice, SelectDevice
\* or UnregisterDevice record
Bookkeeping == pc = "dispatch" /\ Handler \in { "G", "S", "U" }

\* the attributes of handle h are after the step what they were before
AttributesKept(h) ==
    /\ mem_base_address'[h] = mem_base_address[h]
    /\ mem_num_banks'[h] = mem_num_banks[h]
    /\ mem_bank_size'[h] = mem_bank_size[h]
    /\ mem_bank_algo'[h] = mem_bank_algo[h]

\* C27: the handlers of RegisterDevice, SelectDevice and UnregisterDevice send
\* nothing to the port and read nothing from it, and leave synchronized,
\* erased, write_complete and the sector map as they were; SelectDevice on a
\* payload that is whole in the file returns no error whatever the state of
\* the session; RegisterDevice leaves the attributes of every handle other
\* than the one of its payload as they were.
C27_BookkeepingRecords ==
    /\ [][Bookkeeping
            => UNCHANGED << sent, rcvd, synchronized, erased, write_complete, smap >>]_vars
    /\ [][(pc = "dispatch" /\ Handler = "S" /\ ~at_eof')
            => (pc' = "check" /\ error' = NoError)]_vars
    /\ [][(pc = "dispatch" /\ Handler = "G")
            => \A h \in Handles :
                (loc'.register_device_data = << >> \/ h # loc'.register_device_data[1])
                    => AttributesKept(h)]_vars

C27_Witness ==
    /\ pc = "check" /\ Handler = "G" /\ error = NoError
    /\ loc.register_device_data[1] = 1
    /\ mem_bank_size[0] = 8 /\ mem_bank_size[1] = 4096
    /\ erased /\ write_complete /\ selected_handle = 0

\* ------------------------------------------------------------------------
\* The classes of the modules
\* ------------------------------------------------------------------------
\* a step of the code of the driver: init_processor, the header, the record
\* it reads over, the test of the handler's result
DriverStep ==
    \/ pc \in { "init", "read", "check" }
    \/ pc = "dispatch" /\ Handler = "skip"

\* a step of a record handler of the base class UwfProcessor
BaseHandlerStep ==
    \/ TargetPlatformSync
    \/ TargetPlatformAck
    \/ TargetPlatformId
    \/ RegisterDeviceFrom(RegisterPayloads)
    \/ SelectDevice
    \/ UnregisterDevice
    \/ SectorMap
    \/ EraseBegin
    \/ EraseStep

Ig60Registers ==
    /\ pc = "dispatch" /\ Handler = "G" /\ dev_type = DEVICE_TYPE_BL654IG
    /\ Len(loc'.register_device_data) = UWF_REGISTER_DEVICE_LENGTH

\* the payload d holds the registration expected of an IG60 BL654
ExpectedRegistration(d) ==
    d[1] = 0 /\ d[6] = 1 /\ UnpackU32(Slice(d, 6, 10)) > 0 /\ d[11] = 1

\* C29: in the host-integrated class RegisterDevice returns no error and
\* sets registered when handle, bank count and bank algorithm are 0, 1, 1
\* and the bank size is positive, and returns the error 'Unexpected
\* registration data' with registered false otherwise.
C29_Ig60ValidatesRegistration ==
    [][Ig60Registers
        => (/\ pc' = "check"
            /\ IF ExpectedRegistration(loc'.register_device_data)
               THEN error' = NoError /\ registered'
               ELSE error' = ErrRegister /\ ~registered')]_vars

\* ------------------------------------------------------------------------
\* The flags of the session
\* ------------------------------------------------------------------------
\* C30: in the base session synchronized, registered, erased and
\* write_complete start false, and no step of a handler or of the driver, on
\* success or on failure, sets one of them back to false.
C30_FlagsMonotone ==
    /\ ~synchronized /\ ~registered /\ ~erased /\ ~write_complete
    /\ [][/\ synchronized => synchronized'
          /\ registered => registered'
          /\ erased => erased'
          /\ write_complete => write_complete']_vars

C30_Witness ==
    /\ pc = "check" /\ Handler = "M" /\ error = NoError
    /\ synchronized /\ registered /\ erased /\ write_complete
    /\ Len(sectors) = 1

\* ------------------------------------------------------------------------
\* The framing of the records
\* ------------------------------------------------------------------------
\* C31: in a file that no read has found short, a record whose handler has
\* returned without error (or that the driver has read over) has had exactly
\* the data_length bytes of its payload read, so that the next header is
\* read at the end of the record; for WriteBlocks the 8 bytes of the
\* sub-header and the chunks make up data_length.
C31_RecordFraming ==
    (pc = "check" /\ error = NoError /\ ~at_eof) => consumed = data_length

C31_Witness ==
    /\ pc = "check" /\ error = NoError /\ ~at_eof
    /\ Handler = "W" /\ write_complete /\ data_length = 2028 /\ consumed = 2028

\* ------------------------------------------------------------------------
\* What the verifies of a completed write cover
\* ------------------------------------------------------------------------
VerifyCmds == SelectSeq(sent, IsVerifyCmd)

\* the start address and the length a verify command carries
VerifyStart(c) == UnpackU32(SubSeq(c, 2, 5))
VerifyLength(c) == UnpackU32(SubSeq(c, 6, 9))

\* C32: when a WriteBlocks record has set write_complete, the ranges of its
\* verify commands (all acknowledged) follow one another without gap or
\* overlap from base_address + write_offset to the end of the data written,
\* so that every byte written lies in one of them.
C32_VerifiesCoverWrite ==
    (WriteAllAcked /\ write_complete) =>
        LET first == mem_base_address[selected_handle] + loc.offset - PayloadLength
            n == Len(VerifyCmds)
        IN  /\ n = 0 => PayloadLength = 0
            /\ n > 0 =>
                /\ VerifyStart(VerifyCmds[1]) = first
                /\ \A i \in 1..(n - 1) :
                    VerifyStart(VerifyCmds[i + 1])
                        = VerifyStart(VerifyCmds[i]) + VerifyLength(VerifyCmds[i])
                /\ VerifyStart(VerifyCmds[n]) + VerifyLength(VerifyCmds[n])
                        = first + PayloadLength

\* ------------------------------------------------------------------------
\* Where the write commands write
\* ------------------------------------------------------------------------
\* the address and the length a write command carries
WriteAddress(c) == UnpackU32(SubSeq(c, 2, 5))
WriteLength(c) == c[6]

\* C33: every write command of a WriteBlocks record writes inside the
\* selected bank: its range [address, address + length) lies within
\* [base_address, base_address + bank_size).
C33_WritesInsideBank ==
    InWrite =>
        \A k \in 1..Len(sent) :
            IsWriteCmd(sent[k]) =>
                /\ WriteAddress(sent[k]) >= mem_base_address[selected_handle]
                /\ WriteAddress(sent[k]) + WriteLength(sent[k])
                     <= mem_base_address[selected_handle] + mem_bank_size[selected_handle]

\* ------------------------------------------------------------------------
\* Erase before write, bank by bank
\* ------------------------------------------------------------------------
\* C34: a WriteBlocks record sends commands for the selected bank only if an
\* EraseBlocks record has completed while the same handle was selected: an
\* erase of one bank followed by the selection of another handle does not
\* open the other bank to writing.
C34_WriteOnlyToErasedBank ==
    [][WriteSends => selected_handle \in erased_handles]_vars

\* ------------------------------------------------------------------------
\* What a completed erase has erased
\* ------------------------------------------------------------------------
\* an EraseBlocks record has completed, every command of it in the log
EraseCompleted ==
    /\ pc = "check" /\ Handler = "E" /\ error = NoError /\ erased
    /\ Len(sent) < MaxLog

\* the erase command of the sector at address a of the selected bank was
\* sent and acknowledged
ErasedSector(a) ==
    \E i \in 1..Len(sent) :
        /\ sent[i] = << COMMAND_ERASE_SECTOR >> \o PackU32(a + mem_base_address[selected_handle])
        /\ i <= Len(rcvd) /\ IsAck(rcvd[i])

\* C35: when an EraseBlocks record has set erased for a request of size > 0
\* inside the bank, and the sector map sums to bank_size (so that every byte
\* of the bank lies in one sector of the map), every sector that holds a byte
\* of [offset, offset + size) has had its erase command sent and
\* acknowledged, also when the request starts or ends inside a sector.
C35_EraseCoversRequest ==
    (/\ EraseCompleted
     /\ loc.size > 0
     /\ ReqEnd <= mem_bank_size[selected_handle]
     /\ MapSum(sectors, sector_size) = mem_bank_size[selected_handle])
    => \A k \in 1..Len(Sectors) :
           (Sectors[k][1] < ReqEnd /\ Sectors[k][1] + Sectors[k][2] > loc.offset)
               => ErasedSector(Sectors[k][1])

C35_Witness ==
    /\ EraseCompleted
    /\ loc.offset = 2 /\ loc.size = 3
    /\ sectors = << 2 >> /\ sector_size = << 4 >>
    /\ mem_bank_size[selected_handle] = 8
    /\ yielded = << 0, 4 >>

\* ------------------------------------------------------------------------
\* Termination of the run
\* ------------------------------------------------------------------------
\* the run under a scheduler that goes on while a step is left to take: the
\* driver is one sequential program, and every read of the port returns
\* within its timeout; the files of these runs hold records of less than one
\* chunk
ReadShortHeader == ReadHeader /\ data_length' < DATA_BLOCK_SIZE

NextFair ==
    \/ InitProcessor
    \/ ReadShortHeader
    \/ SkipRecord
    \/ CheckError
    \/ TargetPlatformSync
    \/ TargetPlatformAck
    \/ TargetPlatformId
    \/ RegisterDevice
    \/ SelectDevice
    \/ UnregisterDevice
    \/ SectorMap
    \/ EraseBegin
    \/ EraseStep
    \/ WriteBegin
    \/ WriteCommand
    \/ WriteData
    \/ WriteVerify

SpecFair == Init /\ [][NextFair]_vars /\ WF_vars(NextFair)

\* C36: every driver run over a finite file terminates: once a read has come
\* to the end of the file (be it inside a header or a payload), the run
\* reaches its end after finitely many steps, whatever the port answers.
C36_RunTerminates == at_eof ~> (pc = "done")

\* ------------------------------------------------------------------------
\* Records met without a registered selection
\* ------------------------------------------------------------------------
\* the selection names a handle that no RegisterDevice record has stored
SelectionUnregistered ==
    selected_handle # None /\ ~HasKey(mem_bank_size, selected_handle)

\* a SectorMap, EraseBlocks or WriteBlocks record is at its handler with such
\* a selection, or an EraseBlocks record with no selection at all
MetWithoutRegistration ==
    /\ pc = "dispatch"
    /\ \/ Handler \in { "M", "E", "W" } /\ SelectionUnregistered
       \/ Handler = "E" /\ selected_handle = None

\* C37: a SectorMap, EraseBlocks or WriteBlocks record processed while the
\* selection names a handle that was never registered, or an EraseBlocks
\* record processed with no selection at all, ends with an error in the
\* handler's result, which the driver reports and follows with the reboot;
\* the record's payload being complete and of the right length, the handler
\* ends with no exception.
C37_UnregisteredSelectionReported ==
    [][(MetWithoutRegistration /\ malformed' = malformed)
           => (pc' = "check" /\ error' # NoError /\ ended' = ended)]_vars

=============================================================================
